---- MODULE Spec2Model ----
(***************************************************************************)
(* State-machine model of the iterative benchmarking harness:              *)
(*   src/app/bfs.cpp   HarnessBFS (benchmark, executeRun,                  *)
(*                     should_terminate_iteration)                         *)
(*   src/inc/harness.h Harness / IterativeHarness (allocateBuffers,        *)
(*                     resetTempBuffers, resetInputs, check_result, ...)   *)
(* Buffers are byte vectors (std::vector<char> on the host, cl_mem on the  *)
(* device); integer views of them are computed by reinterpretation, as the *)
(* code does with reinterpret_cast<int *>.                                 *)
(***************************************************************************)
EXTENDS Integers, Sequences, FiniteSets, TLC

(***************************************************************************)
(* Bounds of the model.                                                    *)
(***************************************************************************)
\* number of elements of the x, y and output vectors
VecLen == 2
\* largest configured trial count (_trials)
Trials == 2
\* cap on the kernel launches of one trial (the code has no ceiling)
MaxIter == 3
\* longest byte buffer handed to the pure comparison functions
MaxBytes == 8
\* longest gold vector handed to check_result
MaxGold == 2
\* longest raw timing sequence handed to the aggregation step on its own
MaxRaw == 4
\* largest duration (ns) of a raw record handed to the aggregation step
MaxTime == 8
\* longest gold vector handed to check_result to reach its log cap
MaxLongGold == 22
\* largest distance between the mismatches of such a vector
MaxStride == 2
\* largest configured timeout (_timeout), in milliseconds
MaxTimeout == 20
\* largest measured time handed to lowerTimeout, in half milliseconds
MaxHalfMs == 24

(***************************************************************************)
(* Program constants.                                                      *)
(***************************************************************************)
\* sizeof(int): the element width used by reinterpret_cast<int *>
ElemWidth == 4
\* int max_errors = 20
max_errors == 20
\* std::chrono: nanoseconds in one millisecond
NsPerMs == 1000000
\* kernel argument slots of the x vector, the y vector and the output
XSlot == 2
YSlot == 3
\* _mem_manager._output_idx = arg_index (the seventh argument)
OutputIdx == 6
\* _mem_manager._input_idx: the slot of the input vector
InputIdx == 2

\* the values a byte takes in the model
ByteVals == {0, 1}
\* the values an element of a semiring vector takes in the model
ElemVals == {0, 1}

\* n zero bytes: std::vector<char>(n, 0), or clEnqueueFillBuffer with pattern 0
Zeros(n) == [i \in 1..n |-> 0]

(***************************************************************************)
(* Integer view of a byte buffer.                                          *)
(***************************************************************************)
\* input.size() / sizeof(int)
IntLength(buf) == Len(buf) \div ElemWidth

\* the signed weight of the most significant byte (two's complement)
SignedByte(b) == IF b >= 128 THEN b - 256 ELSE b

\* reinterpret_cast<int *>(buf.data())[i], i counted from 0 (little endian)
IntAt(buf, i) ==
    LET b == ElemWidth * i
    IN  buf[b + 1] + 256 * buf[b + 2] + 65536 * buf[b + 3]
        + 16777216 * SignedByte(buf[b + 4])

\* the bytes of one int (values 0..255 suffice for the model's elements)
IntBytes(v) == <<v % 256, 0, 0, 0>>

RECURSIVE EncodeFrom(_, _)
EncodeFrom(v, i) ==
    IF i > Len(v) THEN <<>> ELSE IntBytes(v[i]) \o EncodeFrom(v, i + 1)

\* the byte image of a vector of ints
Encode(v) == EncodeFrom(v, 1)

(***************************************************************************)
(* Inputs: the argument container.                                         *)
(***************************************************************************)
\* InitialDistancesGeneratorX / Y: 1 at index 0, the constant 0 elsewhere
generateValue(ix) == IF ix = 0 THEN 1 ELSE 0

args_x_vect == Encode([i \in 1..VecLen |-> generateValue(i - 1)])
args_y_vect == Encode([i \in 1..VecLen |-> generateValue(i - 1)])
\* _args.output: the byte size of the output buffer
args_output == VecLen * ElemWidth
\* _args.m_idxs, _args.m_vals: the encoded matrix
args_m_idxs == Encode(<<0>>)
args_m_vals == Encode(<<1>>)
\* _args.temp_globals: byte sizes of the temporary global buffers
args_temp_globals == <<1, 2>>
\* the work shape of the benchmarked Run
run == [global1 |-> 1, local1 |-> 1]

\* every vector a kernel launch may leave in its output buffer
KernelOutputs == {Encode(v) : v \in [1..VecLen -> ElemVals]}

\* what a kernel launch may leave in the temporary global buffers
TempScribbles ==
    { [i \in DOMAIN args_temp_globals |-> [j \in 1..args_temp_globals[i] |-> b]]
        : b \in ByteVals }

\* device-reported durations (end - start), by iteration index
TimeProfiles == {<<4, 2, 6, 8>>, <<2, 2, 1>>}

(***************************************************************************)
(* State.                                                                  *)
(***************************************************************************)
VARIABLES
    pc,               \* position of the single thread of control
    t,                \* benchmark: trial index
    iteration,        \* executeRun: iteration counter
    should_terminate, \* executeRun: verdict of the last termination check
    input_mem_ptr,    \* executeRun: which cl_mem holds the input role
    output_mem_ptr,   \* executeRun: which cl_mem holds the output role
    input_host_ptr,   \* executeRun: which host shadow holds the input role
    output_host_ptr,  \* executeRun: which host shadow holds the output role
    mem,              \* device buffers of _mem_manager, by name
    temp_global,      \* _mem_manager._temp_global: device temporaries
    host,             \* host shadow buffers of _mem_manager, by name
    kargs,            \* kernel argument slots (clSetKernelArg bindings)
    time,             \* executeRun: duration returned by executeKernel
    runtimes,         \* executeRun / benchmark: run_runtimes of this trial
    results,          \* benchmark: runtimes, one sequence per trial
    kern,             \* the kernel, as the table of launches seen so far
    profile,          \* the device's duration profile
    gold,             \* check_result: the reference vector
    verdict,          \* check_result: the returned Correctness
    errlog,           \* check_result: indices logged by LOG_ERROR
    nswaps,           \* history: role swaps performed in this trial
    conv_at,          \* history: first launch whose output equalled its input
    temp_written,     \* history: a launch of this trial left non-zero temporaries
    last_dl,          \* history: the host shadow last downloaded into
    trials,           \* Harness::_trials
    timeout,          \* Harness::_timeout, in milliseconds
    measured,         \* lowerTimeout: the measured_time of the last call, in ns
    cl_log            \* executeKernel: the device calls made, with their status

vars == <<pc, t, iteration, should_terminate, input_mem_ptr, output_mem_ptr,
          input_host_ptr, output_host_ptr, mem, temp_global, host, kargs,
          time, runtimes, results, kern, profile, gold, verdict, errlog,
          nswaps, conv_at, temp_written, last_dl, trials, timeout, measured,
          cl_log>>

ptrs == <<input_mem_ptr, output_mem_ptr, input_host_ptr, output_host_ptr>>
checker == <<gold, verdict, errlog>>
history == <<nswaps, conv_at, temp_written, last_dl>>
config == <<trials, timeout, measured, cl_log>>

(***************************************************************************)
(* Setup: Harness constructor, CLMemoryManager and allocateBuffers.        *)
(***************************************************************************)
\* the names of the temporary global buffers, in allocation order
TempNames == <<"_temp_global[0]", "_temp_global[1]">>

\* allocateBuffers: the argument layout, slot 0 first
SetupArgs ==
    LET layout == <<"_matrix_idxs", "_matrix_vals", "_x_vect", "_y_vect",
                    "alpha", "beta", "_output">>
                  \o TempNames \o <<"temp_local", "size_arg">>
    IN  [s \in 0..(Len(layout) - 1) |-> layout[s + 1]]

\* every temporary global buffer, zero over its declared size
ZeroTemps == [i \in DOMAIN args_temp_globals |-> Zeros(args_temp_globals[i])]

\* the zeroing loop stopping after the first temporary buffer
resetFirstTempOnly(temps) ==
    [i \in DOMAIN temps |->
        IF i = 1 THEN Zeros(args_temp_globals[i]) ELSE temps[i]]

\* fillGlobalArg over every temporary buffer, each with its declared size
resetTempBuffers(temps) ==
    [i \in DOMAIN temps |-> Zeros(args_temp_globals[i])]

\* the host shadows as CLMemoryManager's constructor leaves them
InitHost ==
    [_input_host_buffer  |-> args_x_vect,
     _output_host_buffer |-> Zeros(args_output),
     _temp_out_buffer    |-> Zeros(args_output)]

\* the device buffers after allocateBuffers; createGlobalArg leaves the
\* output buffer's contents unspecified
SetupMem(out) ==
    [_matrix_idxs |-> args_m_idxs,
     _matrix_vals |-> args_m_vals,
     _x_vect      |-> args_x_vect,
     _y_vect      |-> args_y_vect,
     _output      |-> out]

\* the state of everything executeRun and the checker own, before any call
Idle ==
    /\ t = 0
    /\ iteration = 0
    /\ should_terminate = FALSE
    /\ input_mem_ptr = "_x_vect"
    /\ output_mem_ptr = "_output"
    /\ input_host_ptr = "_input_host_buffer"
    /\ output_host_ptr = "_output_host_buffer"
    /\ temp_global = ZeroTemps
    /\ kargs = SetupArgs
    /\ time = 0
    /\ runtimes = <<>>
    /\ results = <<>>
    /\ kern = <<>>
    /\ gold = <<>>
    /\ verdict = "none"
    /\ errlog = <<>>
    /\ nswaps = 0
    /\ conv_at = 0
    /\ temp_written = FALSE
    /\ last_dl = "none"
    /\ timeout = MaxTimeout
    /\ measured = 0
    /\ cl_log = <<>>

Init ==
    /\ pc = "benchmark"
    /\ Idle
    /\ trials \in 0..Trials
    /\ \E out \in KernelOutputs : mem = SetupMem(out)
    /\ host = InitHost
    /\ profile \in TimeProfiles

(***************************************************************************)
(* Timing records.                                                         *)
(***************************************************************************)
\* SqlStat(time, correctness, global, local, kind, trial, iteration)
SqlStat(tm, c, kind, trial, iter) ==
    [time |-> tm, correctness |-> c, global1 |-> run.global1,
     local1 |-> run.local1, kind |-> kind, trial |-> trial, iteration |-> iter]

(***************************************************************************)
(* HarnessBFS::should_terminate_iteration.                                 *)
(***************************************************************************)
RECURSIVE CompareLoopLast(_, _, _, _)
\* the loop without its "equal == true" guard: the last comparison decides
CompareLoopLast(input, output, i, equal) ==
    IF i < IntLength(input) /\ i < IntLength(output)
    THEN CompareLoopLast(input, output, i + 1,
                         IntAt(input, i) = IntAt(output, i))
    ELSE equal

RECURSIVE CompareLoop(_, _, _, _)
\* for (i = 0; equal == true && i < input_length && i < output_length; i++)
\*   equal = input_ptr[i] == output_ptr[i];
CompareLoop(input, output, i, equal) ==
    IF equal = TRUE /\ i < IntLength(input) /\ i < IntLength(output)
    THEN CompareLoop(input, output, i + 1, IntAt(input, i) = IntAt(output, i))
    ELSE equal

should_terminate_iteration(input, output) == CompareLoop(input, output, 0, TRUE)

(***************************************************************************)
(* HarnessBFS::executeRun, one action per statement of the loop.           *)
(***************************************************************************)
\* benchmark: for (t = 0; t < _trials; t++) calls executeRun(run, t), whose
\* entry points the role pointers at their initial buffers
EnterRun ==
    /\ pc = "benchmark"
    /\ t < trials
    /\ input_mem_ptr' = "_x_vect"
    /\ output_mem_ptr' = "_output"
    /\ input_host_ptr' = "_input_host_buffer"
    /\ output_host_ptr' = "_output_host_buffer"
    /\ should_terminate' = FALSE
    /\ iteration' = 0
    /\ runtimes' = <<>>
    /\ nswaps' = 0
    /\ conv_at' = 0
    /\ last_dl' = "none"
    /\ temp_written' = FALSE
    /\ pc' = "snapshot"
    /\ UNCHANGED <<t, mem, temp_global, host, kargs, time, results, kern,
                   profile, checker, config>>

\* std::copy(output_host_ptr->begin(), ..., _temp_out_buffer.begin())
Snapshot ==
    /\ pc = "snapshot"
    /\ host' = [host EXCEPT !._temp_out_buffer = host[output_host_ptr]]
    /\ pc' = "resetTemp"
    /\ UNCHANGED <<t, iteration, should_terminate, ptrs, mem, temp_global,
                   kargs, time, runtimes, results, kern, profile, checker,
                   config, history>>

\* resetTempBuffers()
ResetTemp ==
    /\ pc = "resetTemp"
    /\ temp_global' = resetTempBuffers(temp_global)
    /\ pc' = "launch"
    /\ UNCHANGED <<t, iteration, should_terminate, ptrs, mem, host, kargs,
                   time, runtimes, results, kern, profile, checker, config,
                   history>>

\* the duration the device reports for the launch of this iteration
Duration == profile[(iteration % Len(profile)) + 1]

\* the enqueued kernel runs: it reads the buffers bound to the x and y slots
\* and writes the buffer bound to the output slot and the temporaries; the
\* same inputs give the same output (kern remembers each launch)
KernelRuns ==
    LET key == <<mem[kargs[XSlot]], mem[kargs[YSlot]]>> IN
    \E out \in KernelOutputs, scribble \in TempScribbles :
       /\ key \in DOMAIN kern => out = kern[key]
       /\ kern' = IF key \in DOMAIN kern THEN kern ELSE kern @@ (key :> out)
       /\ mem' = [mem EXCEPT ![kargs[OutputIdx]] = out]
       /\ temp_global' = scribble
       /\ temp_written' =
             (temp_written \/ scribble # ZeroTemps)
       /\ conv_at' = IF conv_at = 0 /\ out = mem[kargs[XSlot]]
                     THEN iteration + 1 ELSE conv_at

\* the status a device call returns: CL_SUCCESS or some error code
CLStatus == {"CL_SUCCESS", "CL_ERROR"}

\* the device calls of executeKernel, in program order
KernelCalls ==
    <<"clEnqueueNDRangeKernel", "clWaitForEvents", "clGetEventInfo",
      "clGetEventProfilingInfo(START)", "clGetEventProfilingInfo(END)">>

\* checkCLError(status): TRUE when the process goes on, FALSE when it exits
checkCLError(status) == status = "CL_SUCCESS"

\* executeKernel(run) with every device call returning CL_SUCCESS: the
\* launch, the wait, and the profiling queries whose difference it returns
Launch ==
    /\ pc = "launch"
    /\ iteration < MaxIter
    /\ KernelRuns
    /\ cl_log' = [i \in DOMAIN KernelCalls |-> <<KernelCalls[i], "CL_SUCCESS">>]
    /\ time' = Duration
    /\ pc' = "record"
    /\ UNCHANGED <<t, iteration, should_terminate, ptrs, host, kargs,
                   runtimes, results, profile, checker, trials, timeout,
                   measured, nswaps, last_dl>>

\* a raw record with its trial and iteration tags exchanged
RawStatSwapped(tm, trial, iter) ==
    SqlStat(tm, "NOT_CHECKED", "RAW_RESULT", iter, trial)

\* SqlStat(time, NOT_CHECKED, run.global1, run.local1, RAW_RESULT, trial,
\*         iteration)
RawStat(tm, trial, iter) ==
    SqlStat(tm, "NOT_CHECKED", "RAW_RESULT", trial, iter)

\* runtimes.push_back(SqlStat(time, NOT_CHECKED, ..., RAW_RESULT, trial, iteration))
Record ==
    /\ pc = "record"
    /\ runtimes' = Append(runtimes, RawStat(time, t, iteration))
    /\ pc' = "download"
    /\ UNCHANGED <<t, iteration, should_terminate, ptrs, mem, temp_global,
                   host, kargs, time, results, kern, profile, checker, config,
                   history>>

\* a read that returns before the bytes have arrived
readFromGlobalArgAsync(arg, buffer) == arg

\* readFromGlobalArg(arg, buffer): arg.size() bytes of the buffer
readFromGlobalArg(arg, buffer) == SubSeq(buffer, 1, Len(arg))

\* readFromGlobalArg(*output_host_ptr, *output_mem_ptr)
Download ==
    /\ pc = "download"
    /\ host' = [host EXCEPT ![output_host_ptr] =
                   readFromGlobalArg(host[output_host_ptr], mem[output_mem_ptr])]
    /\ last_dl' = output_host_ptr
    /\ pc' = "check"
    /\ UNCHANGED <<t, iteration, should_terminate, ptrs, mem, temp_global,
                   kargs, time, runtimes, results, kern, profile, checker,
                   config, nswaps, conv_at, temp_written>>

\* should_terminate = should_terminate_iteration(*input_host_ptr, *output_host_ptr)
Check ==
    /\ pc = "check"
    /\ should_terminate' =
          should_terminate_iteration(host[input_host_ptr], host[output_host_ptr])
    /\ pc' = "swap"
    /\ UNCHANGED <<t, iteration, ptrs, mem, temp_global, host, kargs, time,
                   runtimes, results, kern, profile, checker, config,
                   history>>

\* a swap that copies one way only
SwapCopy(a, b) == <<b, b>>

\* a swap that leaves both where they were
SwapNone(a, b) == <<a, b>>

\* std::swap(a, b): the pair after the exchange
StdSwap(a, b) == <<b, a>>

\* the exchange made only when the loop is to go round again
SwapUnlessTerminated ==
    /\ pc = "swap"
    /\ input_mem_ptr' =
          IF should_terminate THEN input_mem_ptr
          ELSE StdSwap(input_mem_ptr, output_mem_ptr)[1]
    /\ output_mem_ptr' =
          IF should_terminate THEN output_mem_ptr
          ELSE StdSwap(input_mem_ptr, output_mem_ptr)[2]
    /\ input_host_ptr' =
          IF should_terminate THEN input_host_ptr
          ELSE StdSwap(input_host_ptr, output_host_ptr)[1]
    /\ output_host_ptr' =
          IF should_terminate THEN output_host_ptr
          ELSE StdSwap(input_host_ptr, output_host_ptr)[2]
    /\ nswaps' = IF should_terminate THEN nswaps ELSE nswaps + 1
    /\ pc' = "rebind"
    /\ UNCHANGED <<t, iteration, should_terminate, mem, temp_global, host,
                   kargs, time, runtimes, results, kern, profile, checker,
                   config, conv_at, temp_written, last_dl>>

\* std::swap(input_mem_ptr, output_mem_ptr); std::swap(input_host_ptr, output_host_ptr)
Swap ==
    /\ pc = "swap"
    /\ input_mem_ptr' = StdSwap(input_mem_ptr, output_mem_ptr)[1]
    /\ output_mem_ptr' = StdSwap(input_mem_ptr, output_mem_ptr)[2]
    /\ input_host_ptr' = StdSwap(input_host_ptr, output_host_ptr)[1]
    /\ output_host_ptr' = StdSwap(input_host_ptr, output_host_ptr)[2]
    /\ nswaps' = nswaps + 1
    /\ pc' = "rebind"
    /\ UNCHANGED <<t, iteration, should_terminate, mem, temp_global, host,
                   kargs, time, runtimes, results, kern, profile, checker,
                   config, conv_at, temp_written, last_dl>>

\* the rebinding of the input and output slots alone
RebindArgsNoY(k, inp, outp) == [k EXCEPT ![InputIdx] = inp, ![OutputIdx] = outp]

\* the rebinding with the second vector slot given the output buffer
RebindArgsYOut(k, inp, outp) ==
    [k EXCEPT ![InputIdx] = inp, ![OutputIdx] = outp, ![YSlot] = outp]

\* setGlobalArg(_input_idx, input_mem_ptr); setGlobalArg(_output_idx,
\* output_mem_ptr); setGlobalArg(3, input_mem_ptr)
RebindArgs(k, inp, outp) ==
    [k EXCEPT ![InputIdx] = inp, ![OutputIdx] = outp, ![YSlot] = inp]

Rebind ==
    /\ pc = "rebind"
    /\ kargs' = RebindArgs(kargs, input_mem_ptr, output_mem_ptr)
    /\ pc' = "while"
    /\ UNCHANGED <<t, iteration, should_terminate, ptrs, mem, temp_global,
                   host, time, runtimes, results, kern, profile, checker,
                   config, history>>

\* a loop condition with the negation lost
WhileCondInverted(st) == st

\* while (!should_terminate): the loop condition reads nothing else
WhileCond(st) == ~st

\* iteration++; } while (!should_terminate); return runtimes;
LoopTest ==
    /\ pc = "while"
    /\ iteration' = iteration + 1
    /\ pc' = IF WhileCond(should_terminate) THEN "snapshot" ELSE "aggregate"
    /\ UNCHANGED <<t, should_terminate, ptrs, mem, temp_global, host, kargs,
                   time, runtimes, results, kern, profile, checker, config,
                   history>>

(***************************************************************************)
(* HarnessBFS::benchmark: the aggregation of one trial.                    *)
(***************************************************************************)
\* the indices in S whose record has the least time
Least(s, S) == {i \in S : \A j \in S : s[i].time <= s[j].time}

RECURSIVE SortedFrom(_, _)
\* every ascending arrangement of the records of s with indices in S
SortedFrom(s, S) ==
    IF S = {} THEN {<<>>}
    ELSE UNION { { <<s[i]>> \o rest : rest \in SortedFrom(s, S \ {i}) }
                 : i \in Least(s, S) }

\* a sort that keeps one record of each duration
StdSortUnique(s) ==
    SortedFrom(s, {i \in DOMAIN s : \A j \in 1..(i - 1) : s[j].time # s[i].time})

\* std::sort(begin, end, SqlStat::compare): ascending by time, the order of
\* records of equal time being whatever the sort leaves
StdSort(s) == SortedFrom(s, DOMAIN s)

\* the lower middle index
MedianIndexLow(n) == (n - 1) \div 2

\* run_runtimes.size() / 2
MedianIndex(n) == n \div 2

RECURSIVE Accumulate(_, _, _)
\* std::accumulate(begin, end, 0, time + stat.getTime()), from index i on
Accumulate(s, i, acc) ==
    IF i > Len(s) THEN acc ELSE Accumulate(s, i + 1, acc + s[i].time)

\* the median record carrying a verdict of its own
WithMedianChecked(sorted, trial) ==
    Append(sorted,
           SqlStat(sorted[MedianIndex(Len(sorted)) + 1].time, "CORRECT",
                   "MEDIAN_RESULT", trial, 0))

\* the median record pushed back after the sort
WithMedian(sorted, trial) ==
    Append(sorted,
           SqlStat(sorted[MedianIndex(Len(sorted)) + 1].time, "NOT_CHECKED",
                   "MEDIAN_RESULT", trial, 0))

\* the sum record written over the last record instead of pushed back
WithSumInPlace(withmedian) ==
    [withmedian EXCEPT ![Len(withmedian)] =
        SqlStat(Accumulate(withmedian, 1, 0), "NOT_CHECKED",
                "MULTI_ITERATION_SUM", 0, 0)]

\* the sum record pushed back after the median record: the accumulation runs
\* over the whole vector as it then stands
WithSum(withmedian) ==
    Append(withmedian,
           SqlStat(Accumulate(withmedian, 1, 0), "NOT_CHECKED",
                   "MULTI_ITERATION_SUM", 0, 0))

\* benchmark, lines 62-80: sort, median, sum, runtimes.push_back(run_runtimes)
Aggregate ==
    /\ pc = "aggregate"
    /\ \E sorted \in StdSort(runtimes) :
          /\ runtimes' = WithSum(WithMedian(sorted, t))
          /\ results' = Append(results, runtimes')
    /\ pc' = "reset"
    /\ UNCHANGED <<t, iteration, should_terminate, ptrs, mem, temp_global,
                   host, kargs, time, kern, profile, checker, config,
                   history>>

(***************************************************************************)
(* IterativeHarness::resetInputs.                                          *)
(***************************************************************************)
\* the rebinding without the y slot
ResetArgsNoY(k) == [k EXCEPT ![XSlot] = "_x_vect", ![OutputIdx] = "_output"]

\* setGlobalArg(2, &_x_vect); setGlobalArg(3, &_y_vect); setGlobalArg(6, &_output)
ResetArgs(k) ==
    [k EXCEPT ![XSlot] = "_x_vect", ![YSlot] = "_y_vect", ![OutputIdx] = "_output"]

\* writeToGlobalArg of both matrix arrays and both vectors, fillGlobalArg of
\* the output buffer
ResetMem(m) ==
    [m EXCEPT !._matrix_idxs = args_m_idxs,
              !._matrix_vals = args_m_vals,
              !._x_vect = args_x_vect,
              !._y_vect = args_y_vect,
              !._output = Zeros(args_output)]

\* resetInputs(), then the loop's t++
ResetInputs ==
    /\ pc = "reset"
    /\ kargs' = ResetArgs(kargs)
    /\ mem' = ResetMem(mem)
    /\ temp_global' = resetTempBuffers(temp_global)
    /\ t' = t + 1
    /\ pc' = "benchmark"
    /\ UNCHANGED <<iteration, should_terminate, ptrs, host, time, runtimes,
                   results, kern, profile, checker, config,
                   history>>

\* benchmark: return runtimes
Return ==
    /\ pc = "benchmark"
    /\ ~(t < trials)
    /\ pc' = "done"
    /\ UNCHANGED <<t, iteration, should_terminate, ptrs, mem, temp_global,
                   host, kargs, time, runtimes, results, kern, profile,
                   checker, config,
                   history>>

Next ==
    \/ EnterRun
    \/ Snapshot
    \/ ResetTemp
    \/ Launch
    \/ Record
    \/ Download
    \/ Check
    \/ Swap
    \/ Rebind
    \/ LoopTest
    \/ Aggregate
    \/ ResetInputs
    \/ Return

Spec == Init /\ [][Next]_vars

(***************************************************************************)
(* Harness::check_result.                                                  *)
(***************************************************************************)
RECURSIVE CheckLoopFirst(_, _, _, _)
\* the loop with its first iteration skipped
CheckLoopFirst(g, res, i, log) ==
    IF i = 0 THEN CheckLoopFirst(g, res, 1, log)
    ELSE IF ~(i < Len(g)) THEN log
    ELSE IF g[i + 1] # IntAt(res, i)
         THEN IF Len(log) + 1 = max_errors
              THEN Append(log, i)
              ELSE CheckLoopFirst(g, res, i + 1, Append(log, i))
         ELSE CheckLoopFirst(g, res, i + 1, log)

RECURSIVE CheckLoopNoCap(_, _, _, _)
\* the loop without its break
CheckLoopNoCap(g, res, i, log) ==
    IF ~(i < Len(g)) THEN log
    ELSE IF g[i + 1] # IntAt(res, i)
         THEN CheckLoopNoCap(g, res, i + 1, Append(log, i))
         ELSE CheckLoopNoCap(g, res, i + 1, log)

RECURSIVE CheckLoop(_, _, _, _)
\* for (i = 0; i < gold.size(); i++)
\*   if (gold[i] != res_ptr[i]) { LOG_ERROR(...); error_count++;
\*                                if (error_count == max_errors) break; }
\* log holds the indices logged so far; error_count is its length
CheckLoop(g, res, i, log) ==
    IF ~(i < Len(g)) THEN log
    ELSE IF g[i + 1] # IntAt(res, i)
         THEN IF Len(log) + 1 = max_errors
              THEN Append(log, i)
              ELSE CheckLoop(g, res, i + 1, Append(log, i))
         ELSE CheckLoop(g, res, i + 1, log)

\* the indices check_result logs for gold g against the output shadow
ErrorLog(g, outbuf) ==
    IF Len(g) = 0 \/ IntLength(outbuf) < Len(g) THEN <<>>
    ELSE CheckLoop(g, outbuf, 0, <<>>)

\* Correctness check_result(std::vector<SemiRingType> &gold), SemiRingType = int
check_result(g, outbuf) ==
    IF Len(g) = 0 THEN "NOT_CHECKED"
    ELSE IF IntLength(outbuf) < Len(g) THEN "BAD_LENGTH"
    ELSE IF Len(CheckLoop(g, outbuf, 0, <<>>)) > 0 THEN "BAD_VALUES"
    ELSE "CORRECT"

\* a call of check_result(gold) on the current output shadow
CheckResult ==
    /\ pc = "check_result"
    /\ verdict' = check_result(gold, host._output_host_buffer)
    /\ errlog' = ErrorLog(gold, host._output_host_buffer)
    /\ pc' = "checked"
    /\ UNCHANGED <<t, iteration, should_terminate, ptrs, mem, temp_global,
                   host, kargs, time, runtimes, results, kern, profile, gold,
                   config, history>>

(***************************************************************************)
(* Specifications of the pure steps on their own, over bounded inputs.     *)
(***************************************************************************)
\* every byte buffer of at most MaxBytes bytes
ByteBufs == UNION { [1..n -> ByteVals] : n \in 0..MaxBytes }

\* every gold vector of at most MaxGold elements
Golds == UNION { [1..n -> ElemVals] : n \in 0..MaxGold }

\* the raw timing sequence executeRun returns for trial 0 when its launches
\* took the durations d, in iteration order
RawRun(d) ==
    [i \in 1..Len(d) |-> SqlStat(d[i], "NOT_CHECKED", "RAW_RESULT", 0, i - 1)]

\* should_terminate_iteration on any two host shadows
InitTerm ==
    /\ pc = "check"
    /\ Idle
    /\ trials = Trials
    /\ mem = SetupMem(Zeros(args_output))
    /\ \E a \in ByteBufs, b \in ByteBufs :
          host = [_input_host_buffer  |-> a,
                  _output_host_buffer |-> b,
                  _temp_out_buffer    |-> b]
    /\ profile = <<1>>

SpecTerm == InitTerm /\ [][Check]_vars

\* check_result on any output shadow and any gold vector
InitCheck ==
    /\ pc = "check_result"
    /\ t = 0
    /\ iteration = 0
    /\ should_terminate = FALSE
    /\ input_mem_ptr = "_x_vect"
    /\ output_mem_ptr = "_output"
    /\ input_host_ptr = "_input_host_buffer"
    /\ output_host_ptr = "_output_host_buffer"
    /\ temp_global = ZeroTemps
    /\ kargs = SetupArgs
    /\ time = 0
    /\ runtimes = <<>>
    /\ results = <<>>
    /\ kern = <<>>
    /\ gold \in Golds
    /\ verdict = "none"
    /\ errlog = <<>>
    /\ nswaps = 0
    /\ conv_at = 0
    /\ temp_written = FALSE
    /\ last_dl = "none"
    /\ trials = Trials
    /\ timeout = MaxTimeout
    /\ measured = 0
    /\ cl_log = <<>>
    /\ mem = SetupMem(Zeros(args_output))
    /\ \E b \in ByteBufs :
          host = [_input_host_buffer  |-> args_x_vect,
                  _output_host_buffer |-> b,
                  _temp_out_buffer    |-> Zeros(args_output)]
    /\ profile = <<1>>

SpecCheck == InitCheck /\ [][CheckResult]_vars

\* the aggregation of any raw timing sequence
InitAgg ==
    /\ pc = "aggregate"
    /\ t = 0
    /\ iteration = 0
    /\ should_terminate = TRUE
    /\ input_mem_ptr = "_x_vect"
    /\ output_mem_ptr = "_output"
    /\ input_host_ptr = "_input_host_buffer"
    /\ output_host_ptr = "_output_host_buffer"
    /\ temp_global = ZeroTemps
    /\ kargs = SetupArgs
    /\ time = 0
    /\ \E n \in 1..MaxRaw : \E d \in [1..n -> 1..MaxTime] : runtimes = RawRun(d)
    /\ results = <<>>
    /\ kern = <<>>
    /\ gold = <<>>
    /\ verdict = "none"
    /\ errlog = <<>>
    /\ nswaps = 0
    /\ conv_at = 0
    /\ temp_written = FALSE
    /\ last_dl = "none"
    /\ trials = Trials
    /\ timeout = MaxTimeout
    /\ measured = 0
    /\ cl_log = <<>>
    /\ mem = SetupMem(Zeros(args_output))
    /\ host = InitHost
    /\ profile = <<1>>

SpecAgg == InitAgg /\ [][Aggregate]_vars

\* an output vector of n elements that differs from an all-zero gold vector
\* at index s and at every d-th index after it
Mismatching(n, s, d) ==
    [i \in 1..n |-> IF i - 1 >= s /\ (i - 1 - s) % d = 0 THEN 1 ELSE 0]

\* check_result on gold vectors long enough to pass max_errors mismatches
InitCap ==
    /\ pc = "check_result"
    /\ t = 0
    /\ iteration = 0
    /\ should_terminate = FALSE
    /\ input_mem_ptr = "_x_vect"
    /\ output_mem_ptr = "_output"
    /\ input_host_ptr = "_input_host_buffer"
    /\ output_host_ptr = "_output_host_buffer"
    /\ temp_global = ZeroTemps
    /\ kargs = SetupArgs
    /\ time = 0
    /\ runtimes = <<>>
    /\ results = <<>>
    /\ kern = <<>>
    /\ verdict = "none"
    /\ errlog = <<>>
    /\ nswaps = 0
    /\ conv_at = 0
    /\ temp_written = FALSE
    /\ last_dl = "none"
    /\ trials = Trials
    /\ timeout = MaxTimeout
    /\ measured = 0
    /\ cl_log = <<>>
    /\ mem = SetupMem(Zeros(args_output))
    /\ \E n \in 1..MaxLongGold, s \in 0..MaxLongGold, d \in 1..MaxStride :
          /\ s <= n
          /\ gold = Zeros(n)
          /\ host = [_input_host_buffer  |-> args_x_vect,
                     _output_host_buffer |-> Encode(Mismatching(n, s, d)),
                     _temp_out_buffer    |-> Zeros(args_output)]
    /\ profile = <<1>>

SpecCap == InitCap /\ [][CheckResult]_vars

(***************************************************************************)
(* Harness::lowerTimeout.                                                  *)
(***************************************************************************)
\* std::chrono::duration_cast<std::chrono::milliseconds>(ns), for ns >= 0
ToMilliseconds(ns) == ns \div NsPerMs

\* the assignment without its guard
lowerTimeoutAlways(tm, measured_time) == ToMilliseconds(measured_time) * 2

\* lowerTimeout(measured_time): the value of _timeout after the call
lowerTimeout(tm, measured_time) ==
    LET ms_measured == ToMilliseconds(measured_time)
    IN  IF ms_measured * 2 < tm THEN ms_measured * 2 ELSE tm

\* the measured times handed to lowerTimeout: every half millisecond
MeasuredTimes == {k * (NsPerMs \div 2) : k \in 0..MaxHalfMs}

\* a call of lowerTimeout(measured_time)
LowerTimeout ==
    /\ pc = "lowerTimeout"
    /\ \E m \in MeasuredTimes :
          /\ measured' = m
          /\ timeout' = lowerTimeout(timeout, m)
    /\ UNCHANGED <<pc, t, iteration, should_terminate, ptrs, mem, temp_global,
                   host, kargs, time, runtimes, results, kern, profile,
                   checker, trials, cl_log, history>>

\* lowerTimeout called any number of times, from any configured timeout
InitTimeout ==
    /\ pc = "lowerTimeout"
    /\ t = 0
    /\ iteration = 0
    /\ should_terminate = FALSE
    /\ input_mem_ptr = "_x_vect"
    /\ output_mem_ptr = "_output"
    /\ input_host_ptr = "_input_host_buffer"
    /\ output_host_ptr = "_output_host_buffer"
    /\ temp_global = ZeroTemps
    /\ kargs = SetupArgs
    /\ time = 0
    /\ runtimes = <<>>
    /\ results = <<>>
    /\ kern = <<>>
    /\ gold = <<>>
    /\ verdict = "none"
    /\ errlog = <<>>
    /\ nswaps = 0
    /\ conv_at = 0
    /\ temp_written = FALSE
    /\ last_dl = "none"
    /\ trials = Trials
    /\ timeout \in 0..MaxTimeout
    /\ measured = 0
    /\ cl_log = <<>>
    /\ mem = SetupMem(Zeros(args_output))
    /\ host = InitHost
    /\ profile = <<1>>

SpecTimeout == InitTimeout /\ [][LowerTimeout]_vars

(***************************************************************************)
(* Harness::executeKernel, one action per device call, each call returning *)
(* any status.                                                             *)
(***************************************************************************)
\* what no device call of executeKernel touches
KernelFrame ==
    <<t, iteration, should_terminate, ptrs, host, kargs, runtimes, results,
      profile, checker, trials, timeout, measured, nswaps, last_dl>>

\* checkCLError(clEnqueueNDRangeKernel(...))
Enqueue ==
    /\ pc = "launch"
    /\ iteration < MaxIter
    /\ \E status \in CLStatus :
          /\ cl_log' = <<<<KernelCalls[1], status>>>>
          /\ IF checkCLError(status)
             THEN KernelRuns /\ pc' = "clWaitForEvents"
             ELSE /\ pc' = "exit"
                  /\ UNCHANGED <<mem, temp_global, kern, temp_written, conv_at>>
    /\ UNCHANGED <<time, KernelFrame>>

\* clWaitForEvents(1, &ev): the returned status is discarded
WaitForEvents ==
    /\ pc = "clWaitForEvents"
    /\ \E status \in CLStatus : cl_log' = Append(cl_log, <<KernelCalls[2], status>>)
    /\ pc' = "clGetEventInfo"
    /\ UNCHANGED <<mem, temp_global, kern, temp_written, conv_at, time,
                   KernelFrame>>

\* checkCLError(clGetEventInfo(ev, CL_EVENT_COMMAND_EXECUTION_STATUS, ...));
\* the switch on the execution status only logs
GetEventInfo ==
    /\ pc = "clGetEventInfo"
    /\ \E status \in CLStatus :
          /\ cl_log' = Append(cl_log, <<KernelCalls[3], status>>)
          /\ pc' = IF checkCLError(status) THEN "profilingStart" ELSE "exit"
    /\ UNCHANGED <<mem, temp_global, kern, temp_written, conv_at, time,
                   KernelFrame>>

\* checkCLError(clGetEventProfilingInfo(ev, CL_PROFILING_COMMAND_START, ...))
ProfilingStart ==
    /\ pc = "profilingStart"
    /\ \E status \in CLStatus :
          /\ cl_log' = Append(cl_log, <<KernelCalls[4], status>>)
          /\ pc' = IF checkCLError(status) THEN "profilingEnd" ELSE "exit"
    /\ UNCHANGED <<mem, temp_global, kern, temp_written, conv_at, time,
                   KernelFrame>>

\* checkCLError(clGetEventProfilingInfo(ev, CL_PROFILING_COMMAND_END, ...));
\* return elapsed_ns(end - start)
ProfilingEnd ==
    /\ pc = "profilingEnd"
    /\ \E status \in CLStatus :
          /\ cl_log' = Append(cl_log, <<KernelCalls[5], status>>)
          /\ IF checkCLError(status)
             THEN time' = Duration /\ pc' = "record"
             ELSE time' = time /\ pc' = "exit"
    /\ UNCHANGED <<mem, temp_global, kern, temp_written, conv_at, KernelFrame>>

\* the first executeKernel of a run, about to make its first device call
InitKernel ==
    /\ pc = "launch"
    /\ Idle
    /\ trials = Trials
    /\ \E out \in KernelOutputs : mem = SetupMem(out)
    /\ host = InitHost
    /\ profile \in TimeProfiles

NextKernel ==
    \/ Enqueue
    \/ WaitForEvents
    \/ GetEventInfo
    \/ ProfilingStart
    \/ ProfilingEnd
    \/ Record

SpecKernel == InitKernel /\ [][NextKernel]_vars

(***************************************************************************)
(* Properties.                                                             *)
(***************************************************************************)
\* executeRun has just been entered: the first statement of a trial's loop
TrialStart == pc = "snapshot" /\ iteration = 0

\* executeRun has just returned its runtimes to benchmark
RunReturned == pc = "aggregate"

\* C1: a trial whose kernel output first equals the kernel's input at launch
\* k returns exactly k raw records: executeRun returns only after such a
\* launch, and with as many records as that launch's number.
C1_ConvergenceFixedPoint ==
    RunReturned => (conv_at # 0 /\ Len(runtimes) = conv_at)

\* the i-th element (from 0) of a buffer, as its ElemWidth bytes
ElemBytes(buf, i) == SubSeq(buf, ElemWidth * i + 1, ElemWidth * i + ElemWidth)

\* every paired element up to the shorter length is the same
PairedEqual(input, output) ==
    \A i \in 0..(Len(input) \div ElemWidth - 1) :
        i < Len(output) \div ElemWidth =>
            ElemBytes(input, i) = ElemBytes(output, i)

\* C2: should_terminate_iteration(input, output) is true iff every paired
\* element up to the shorter of the two lengths (bytes / element width) is
\* exactly equal, and the call changes nothing but the verdict.
C2_TerminationIffPairedEqual ==
    /\ [](pc = "swap" =>
            (should_terminate
               <=> PairedEqual(host[input_host_ptr], host[output_host_ptr])))
    /\ [][pc = "check" /\ pc' = "swap" =>
            UNCHANGED <<t, iteration, ptrs, mem, temp_global, host, kargs,
                        time, runtimes, results, gold, verdict>>]_vars

\* the check has run on vectors of different lengths, whose common prefix is
\* equal and whose longer one goes on with something else
C2_Witness ==
    /\ pc = "swap"
    /\ should_terminate
    /\ IntLength(host[input_host_ptr]) = 2
    /\ IntLength(host[output_host_ptr]) = 1
    /\ IntAt(host[input_host_ptr], 1) # IntAt(host[input_host_ptr], 0)

\* C3: after N role swaps in a trial, the buffer (and host shadow) that
\* started as input holds the output role iff N is odd and the input role
\* iff N is even, and symmetrically for the one that started as output.
C3_RoleSwapParity ==
    /\ (output_mem_ptr = "_x_vect") <=> (nswaps % 2 = 1)
    /\ (input_mem_ptr = "_x_vect") <=> (nswaps % 2 = 0)
    /\ (input_mem_ptr = "_output") <=> (nswaps % 2 = 1)
    /\ (output_mem_ptr = "_output") <=> (nswaps % 2 = 0)
    /\ (output_host_ptr = "_input_host_buffer") <=> (nswaps % 2 = 1)
    /\ (input_host_ptr = "_input_host_buffer") <=> (nswaps % 2 = 0)
    /\ (input_host_ptr = "_output_host_buffer") <=> (nswaps % 2 = 1)
    /\ (output_host_ptr = "_output_host_buffer") <=> (nswaps % 2 = 0)

\* three swaps have been made in a trial after the first
C3_Witness == nswaps = 3 /\ t = 1 /\ output_mem_ptr = "_x_vect"

\* one buffer holds each role, on the device and on the host, and the host
\* roles go with the device roles
RolesPaired ==
    /\ {input_mem_ptr, output_mem_ptr} = {"_x_vect", "_output"}
    /\ {input_host_ptr, output_host_ptr}
          = {"_input_host_buffer", "_output_host_buffer"}
    /\ (input_mem_ptr = "_x_vect") <=> (input_host_ptr = "_input_host_buffer")

\* C4: at every moment exactly one ping-pong buffer holds the input role and
\* the other the output role, the host-shadow roles pairing with the device
\* roles; a role swap leaves the contents of every buffer unchanged.
C4_RolesExclusiveSwapKeepsContents ==
    /\ []RolesPaired
    /\ [][pc = "swap" /\ pc' = "rebind" =>
            /\ mem' = mem
            /\ host' = host
            /\ temp_global' = temp_global
            /\ input_mem_ptr' = output_mem_ptr
            /\ output_mem_ptr' = input_mem_ptr]_vars

\* a swap has just exchanged the roles of two buffers of different contents
C4_Witness ==
    /\ pc = "rebind"
    /\ nswaps = 2
    /\ mem._x_vect # mem._output
    /\ host._input_host_buffer # host._output_host_buffer

\* the raw records of an aggregated trial: all but its last two
RawOf(final) == SubSeq(final, 1, Len(final) - 2)
MedianOf(final) == final[Len(final) - 1]
SumOf(final) == final[Len(final)]

\* v stands at zero-based index k of the raw durations sorted ascending
AtSortedIndex(raw, k, v) ==
    /\ \E i \in DOMAIN raw : raw[i].time = v
    /\ Cardinality({i \in DOMAIN raw : raw[i].time < v}) <= k
    /\ Cardinality({i \in DOMAIN raw : raw[i].time <= v}) > k

\* the duration measured at iteration i of an aggregated trial
TimeOfIteration(final, i) ==
    (CHOOSE r \in {RawOf(final)[j] : j \in DOMAIN RawOf(final)} :
        r.iteration = i).time

\* C5: for a trial with n >= 1 raw records, the median record's duration is
\* the element at zero-based index floor(n/2) of the raw durations sorted
\* ascending.
C5_MedianIsUpperMiddle ==
    pc = "reset" =>
        LET final == results[Len(results)]
            raw   == RawOf(final)
        IN  /\ Len(raw) >= 1
            /\ MedianOf(final).kind = "MEDIAN_RESULT"
            /\ AtSortedIndex(raw, Len(raw) \div 2, MedianOf(final).time)

\* the trial measured 4, 2, 6, 8 and its median record says 6
C5_Witness ==
    /\ pc = "reset"
    /\ Len(results[Len(results)]) = 6
    /\ \A i \in 0..3 :
          TimeOfIteration(results[Len(results)], i) = <<4, 2, 6, 8>>[i + 1]
    /\ MedianOf(results[Len(results)]).time = 6

RECURSIVE TotalTime(_)
\* the arithmetic total of the durations of a sequence of records
TotalTime(s) == IF s = <<>> THEN 0 ELSE s[1].time + TotalTime(Tail(s))

\* C6: the sum record's duration is the total of the trial's raw durations
\* only, the median record not included.
C6_SumOfRawOnly ==
    pc = "reset" =>
        SumOf(results[Len(results)]).time = TotalTime(RawOf(results[Len(results)]))

\* C7: check_result returns NOT_CHECKED for an empty gold; otherwise
\* BAD_LENGTH when the output holds fewer elements than gold; otherwise
\* BAD_VALUES iff some index below len(gold) differs, and CORRECT iff none.
C7_CheckResultVerdict ==
    pc = "checked" =>
        LET out == host._output_host_buffer
            mismatch == \E i \in 0..(Len(gold) - 1) : gold[i + 1] # IntAt(out, i)
        IN  IF Len(gold) = 0 THEN verdict = "NOT_CHECKED"
            ELSE IF Len(out) \div ElemWidth < Len(gold) THEN verdict = "BAD_LENGTH"
            ELSE /\ verdict \in {"BAD_VALUES", "CORRECT"}
                 /\ (verdict = "BAD_VALUES") <=> mismatch
                 /\ (verdict = "CORRECT") <=> ~mismatch

\* a gold of two elements was compared with a long enough output that
\* differs from it in the first element only
C7_Witness ==
    /\ pc = "checked"
    /\ verdict = "BAD_VALUES"
    /\ Len(gold) = 2
    /\ IntLength(host._output_host_buffer) = 2
    /\ gold[1] # IntAt(host._output_host_buffer, 0)
    /\ gold[2] = IntAt(host._output_host_buffer, 1)

\* C8: at every kernel launch every temporary global buffer holds only zero
\* bytes over its full declared size.
C8_TempsZeroAtLaunch ==
    pc = "launch" =>
        /\ DOMAIN temp_global = DOMAIN args_temp_globals
        /\ \A i \in DOMAIN temp_global :
              /\ Len(temp_global[i]) = args_temp_globals[i]
              /\ \A j \in 1..Len(temp_global[i]) : temp_global[i][j] = 0

\* a launch is about to start after an earlier launch left non-zero bytes
C8_Witness == pc = "launch" /\ iteration >= 1 /\ temp_written

\* C9: at the start of every trial both host shadows hold their original
\* values.
C9_HostShadowsRestored ==
    TrialStart =>
        /\ host._input_host_buffer = InitHost._input_host_buffer
        /\ host._output_host_buffer = InitHost._output_host_buffer

\* C10: at the start of every trial the input role is on the x-vector
\* buffer and the output role on the output buffer, the kernel's vector
\* slots are bound to the x, y and output buffers as at setup, the device x
\* and y buffers hold the original vectors and every temporary global
\* buffer is zero.
C10_ResetRestoresDeviceAndRoles ==
    TrialStart =>
        /\ input_mem_ptr = "_x_vect"
        /\ output_mem_ptr = "_output"
        /\ kargs[XSlot] = "_x_vect"
        /\ kargs[YSlot] = "_y_vect"
        /\ kargs[OutputIdx] = "_output"
        /\ mem._x_vect = args_x_vect
        /\ mem._y_vect = args_y_vect
        /\ temp_global = ZeroTemps

\* a trial starts after a trial that made an odd number of swaps
C10_Witness ==
    /\ TrialStart
    /\ t = 1
    /\ Len(RawOf(results[1])) % 2 = 1

\* C11: every trial t >= 1 returns as many raw timing records as trial 0
\* did: what an earlier trial left behind neither shortens nor lengthens it.
C11_TrialIndependence ==
    (RunReturned /\ t >= 1) => Len(runtimes) = Len(RawOf(results[1]))

\* a trial is in progress: from the entry of executeRun to its return
InTrial ==
    pc \in {"snapshot", "resetTemp", "launch", "record", "download", "check",
            "swap", "rebind", "while", "aggregate"}

\* the argument slots other than those in S are bound as allocateBuffers
\* bound them
SetupBindingOutside(S) ==
    \A s \in DOMAIN kargs \ S : kargs[s] = SetupArgs[s]

\* C12 (as stated): throughout a trial only the input slot and the output
\* slot are ever rebound; every other slot, the second vector slot included,
\* keeps its setup binding.
C12_TwoSlotsRebound ==
    InTrial => SetupBindingOutside({InputIdx, OutputIdx})

\* C12 (amended): after every iteration exactly three slots are rebound: the
\* input slot and the second vector slot to the new input buffer, the output
\* slot to the new output buffer; every other slot keeps its setup binding
\* for the whole trial.
C12_ThreeSlotsRebound ==
    InTrial =>
        /\ SetupBindingOutside({InputIdx, OutputIdx, YSlot})
        /\ (pc # "rebind" /\ nswaps > 0) =>
              /\ kargs[InputIdx] = input_mem_ptr
              /\ kargs[YSlot] = input_mem_ptr
              /\ kargs[OutputIdx] = output_mem_ptr
        /\ (pc # "rebind" /\ nswaps = 0) =>
              \A s \in {InputIdx, OutputIdx, YSlot} : kargs[s] = SetupArgs[s]
        /\ (pc # "rebind" /\ nswaps % 2 = 1) =>
              \A s \in {InputIdx, OutputIdx, YSlot} : kargs[s] # SetupArgs[s]

\* the second rebinding of a trial has bound the second vector slot to the
\* x-vector buffer, which is the input again
C12_Witness ==
    /\ pc = "while"
    /\ nswaps = 2
    /\ kargs[YSlot] = "_x_vect"
    /\ kargs[InputIdx] = "_x_vect"
    /\ kargs[OutputIdx] = "_output"

\* benchmark has returned its runtimes
BenchmarkReturned == pc = "done"

\* seq is at least one raw record of trial k, then one median record, then
\* one sum record
TrialShape(seq, k) ==
    /\ Len(seq) >= 3
    /\ \A i \in 1..(Len(seq) - 2) :
          seq[i].kind = "RAW_RESULT" /\ seq[i].trial = k
    /\ MedianOf(seq).kind = "MEDIAN_RESULT"
    /\ MedianOf(seq).trial = k
    /\ SumOf(seq).kind = "MULTI_ITERATION_SUM"

\* C13: benchmark returns exactly one sequence per configured trial (none
\* for a trial count of 0), in trial order; each is at least one raw record
\* followed by exactly one median record and exactly one sum record as its
\* last two elements, and the median index is in range whenever it is used.
C13_ResultShape ==
    /\ Len(results) <= trials
    /\ BenchmarkReturned => Len(results) = trials
    /\ \A k \in 1..Len(results) : TrialShape(results[k], k - 1)
    /\ RunReturned =>
          /\ Len(runtimes) >= 1
          /\ MedianIndex(Len(runtimes)) \in 0..(Len(runtimes) - 1)

\* benchmark has returned two trials' sequences of different lengths
C13_Witness ==
    /\ BenchmarkReturned
    /\ trials = 2
    /\ Len(results) = 2
    /\ Len(results[1]) = 4
    /\ Len(results[2]) = 3

\* C14: in executeKernel a non-success status from the kernel launch, from
\* the wait for its completion or from a profiling query is the last thing
\* the process sees: it exits at once, no later device call is made and no
\* timing record is pushed for that iteration.
C14_FatalDeviceErrors ==
    \A i \in DOMAIN cl_log :
        ~checkCLError(cl_log[i][2]) =>
            /\ i = Len(cl_log)
            /\ pc = "exit"
            /\ Len(runtimes) = iteration

\* the kernel has shown a fixed point: some launch wrote an output equal to
\* the x vector it read
KernelConverged == \E key \in DOMAIN kern : kern[key] = key[1]

\* C15: executeRun returns only from an iteration whose termination check
\* returned true, whatever the iteration count and the timeout: after a
\* false check the loop always goes round again. A kernel whose output never
\* equals its input therefore never lets executeRun return.
C15_ReturnsOnlyOnTrueCheck ==
    /\ [](RunReturned => (should_terminate /\ KernelConverged))
    /\ []((BenchmarkReturned /\ trials > 0) => KernelConverged)
    /\ [][pc = "while" =>
            /\ should_terminate => pc' = "aggregate"
            /\ ~should_terminate => pc' = "snapshot" /\ iteration' = iteration + 1
         ]_vars

\* the loop of trial 0 goes round again after MaxIter launches none of which
\* wrote an output equal to its input
C15_Witness ==
    /\ pc = "snapshot"
    /\ t = 0
    /\ iteration = MaxIter
    /\ ~should_terminate
    /\ ~KernelConverged

\* C16 (as stated): the role swap, the rebinding and the increment of the
\* iteration counter happen only after a false termination check, so when
\* executeRun returns the output role is on the host shadow last downloaded
\* into and the counter is the index of the last iteration.
C16_NoSwapOnTermination ==
    /\ pc \in {"rebind", "while"} => ~should_terminate
    /\ RunReturned =>
          /\ output_host_ptr = last_dl
          /\ nswaps = Len(runtimes) - 1
          /\ iteration = Len(runtimes) - 1

\* C16 (amended): the role swap, the rebinding and the increment of the
\* iteration counter happen after every termination check, the true one
\* included, so when executeRun returns there have been as many swaps as
\* launches, the arguments are bound to the swapped roles and the input role
\* is on the host shadow last downloaded into.
C16_SwapOnEveryIteration ==
    /\ pc = "while" => nswaps = iteration + 1
    /\ RunReturned =>
          /\ should_terminate
          /\ input_host_ptr = last_dl
          /\ output_host_ptr # last_dl
          /\ nswaps = Len(runtimes)
          /\ iteration = Len(runtimes)
          /\ kargs[InputIdx] = input_mem_ptr
          /\ kargs[OutputIdx] = output_mem_ptr

\* executeRun returns after a single launch: the one download went into the
\* output shadow, which now has the input role
C16_Witness ==
    /\ RunReturned
    /\ Len(runtimes) = 1
    /\ last_dl = "_output_host_buffer"
    /\ input_host_ptr = "_output_host_buffer"
    /\ input_mem_ptr = "_output"

\* the statement that follows each statement of the loop body
StepAfter ==
    [snapshot  |-> {"resetTemp"},
     resetTemp |-> {"launch"},
     launch    |-> {"record"},
     record    |-> {"download"},
     download  |-> {"check"},
     check     |-> {"swap"},
     swap      |-> {"rebind"},
     rebind    |-> {"while"},
     while     |-> {"snapshot", "aggregate"}]

\* C17: every iteration snapshots the output shadow, zeroes the temporaries,
\* launches the kernel and waits, records the raw timing, downloads the
\* output into its host shadow and evaluates the termination check, in that
\* order: the check of an iteration sees that iteration's download, and the
\* launch of the next iteration comes after the check, the swap and the
\* rebinding of this one.
C17_StepOrdering ==
    /\ [][(pc \in DOMAIN StepAfter) => (pc' \in StepAfter[pc])]_vars
    /\ [](pc \in {"resetTemp", "launch"} =>
             host._temp_out_buffer = host[output_host_ptr])
    /\ [](pc = "launch" =>
             /\ temp_global = ZeroTemps
             /\ Len(runtimes) = iteration
             /\ nswaps = iteration
             /\ kargs[InputIdx] = input_mem_ptr
             /\ kargs[OutputIdx] = output_mem_ptr
             /\ iteration > 0 => ~should_terminate)
    /\ [](pc = "record" => Len(runtimes) = iteration)
    /\ [](pc = "download" => Len(runtimes) = iteration + 1)
    /\ [](pc = "check" =>
             /\ Len(runtimes) = iteration + 1
             /\ last_dl = output_host_ptr
             /\ host[output_host_ptr] = mem[output_mem_ptr])

\* the second launch of a trial is about to start, after the first
\* iteration's download changed the output shadow and its check, swap and
\* rebinding were done
C17_Witness ==
    /\ pc = "launch"
    /\ iteration = 1
    /\ nswaps = 1
    /\ host[input_host_ptr] # InitHost._output_host_buffer

\* the iteration tags of the records of seq
IterationTags(seq) == {seq[i].iteration : i \in DOMAIN seq}

\* C18: every raw record of trial t carries kind raw, trial index t and the
\* index of the iteration that measured it; within one trial the iteration
\* indices are exactly 0..n-1, each once, the counter restarting at 0 in
\* every trial.
C18_RawRecordTagging ==
    /\ InTrial =>
          \A i \in DOMAIN runtimes :
              /\ runtimes[i].kind = "RAW_RESULT"
              /\ runtimes[i].trial = t
              /\ runtimes[i].iteration = i - 1
    /\ pc \in {"snapshot", "resetTemp", "launch", "record"} =>
          Len(runtimes) = iteration
    /\ \A k \in DOMAIN results :
          LET raw == RawOf(results[k]) IN
          /\ \A i \in DOMAIN raw :
                raw[i].kind = "RAW_RESULT" /\ raw[i].trial = k - 1
          /\ IterationTags(raw) = 0..(Len(raw) - 1)

\* the second trial has returned several raw records
C18_Witness ==
    /\ pc = "reset"
    /\ t = 1
    /\ Len(RawOf(results[2])) >= 2
    /\ 1 \in IterationTags(RawOf(results[2]))

\* the indices below len(gold) at which gold and the output shadow differ
Mismatches ==
    {i \in 0..(Len(gold) - 1) : gold[i + 1] # IntAt(host._output_host_buffer, i)}

\* the smaller of two numbers
Smaller(a, b) == IF a <= b THEN a ELSE b

\* C19: when check_result compares against a non-empty gold vector and the
\* output is long enough, it logs min(max_errors, number of mismatching
\* indices) mismatches, in increasing index order: the j-th logged index is
\* the j-th mismatching index, and nothing after the max_errors-th mismatch
\* is scanned or logged.
C19_MismatchLogCap ==
    (/\ pc = "checked"
     /\ Len(gold) > 0
     /\ IntLength(host._output_host_buffer) >= Len(gold)) =>
        /\ Len(errlog) = Smaller(max_errors, Cardinality(Mismatches))
        /\ \A j \in DOMAIN errlog :
              /\ errlog[j] \in Mismatches
              /\ Cardinality({m \in Mismatches : m < errlog[j]}) = j - 1

\* check_result has returned after meeting more than max_errors mismatches
C19_Witness ==
    /\ pc = "checked"
    /\ Cardinality(Mismatches) > max_errors
    /\ Len(errlog) = max_errors
    /\ verdict = "BAD_VALUES"

\* C20: over any sequence of lowerTimeout calls the stored timeout never
\* increases; a call with measured time m nanoseconds sets it to
\* 2 * floor(m / 1,000,000) milliseconds exactly when that value is strictly
\* less than the current timeout and leaves it unchanged otherwise, so any m
\* below one millisecond drives a positive timeout to 0.
C20_TimeoutOnlyLowers ==
    [][(pc = "lowerTimeout") =>
          LET doubled == 2 * (measured' \div 1000000) IN
          /\ timeout' <= timeout
          /\ (doubled < timeout) => (timeout' = doubled)
          /\ ~(doubled < timeout) => (timeout' = timeout)
          /\ (measured' < 1000000 /\ timeout > 0) => (timeout' = 0)
      ]_vars

\* a measured time below one millisecond has left the timeout at 0
C20_Witness ==
    /\ pc = "lowerTimeout"
    /\ measured > 0
    /\ measured < NsPerMs
    /\ timeout = 0

\* C21: the second vector slot (argument 3) is rebound to the new input
\* buffer after every iteration, so from the second launch of a trial until
\* the next reset the input-vector slot and the y-vector slot are bound to
\* the same device buffer; the y-vector buffer is bound to a slot, and so
\* read by the kernel, at the first launch of a trial only.
C21_YSlotAliasing ==
    /\ (InTrial /\ iteration >= 1) =>
          /\ kargs[YSlot] = kargs[InputIdx]
          /\ \A s \in DOMAIN kargs : kargs[s] # "_y_vect"
    /\ pc = "reset" => kargs[YSlot] = kargs[InputIdx]
    /\ pc = "while" => kargs[YSlot] = input_mem_ptr
    /\ pc = "launch" =>
          /\ (kargs[YSlot] = "_y_vect") <=> (iteration = 0)
          /\ iteration = 0 => kargs[InputIdx] = "_x_vect"

\* the second launch of the second trial is about to read the output buffer
\* of its first launch through both vector slots
C21_Witness ==
    /\ pc = "launch"
    /\ t = 1
    /\ iteration = 1
    /\ kargs[YSlot] = "_output"
    /\ kargs[InputIdx] = "_output"
    /\ mem._y_vect = args_y_vect

\* how many times record r occurs in seq
Occurrences(seq, r) == Cardinality({i \in DOMAIN seq : seq[i] = r})

\* a and b hold the same records, each as many times
SameMultiset(a, b) ==
    /\ Len(a) = Len(b)
    /\ \A i \in DOMAIN a : Occurrences(a, a[i]) = Occurrences(b, a[i])

\* the durations of seq never decrease from one record to the next
NonDecreasing(seq) ==
    \A i \in 1..(Len(seq) - 1) : seq[i].time <= seq[i + 1].time

\* C22: in the sequence benchmark returns for a trial the raw records stand
\* in non-decreasing order of duration, whatever their iteration order was,
\* and they are exactly the records executeRun produced, duration, trial and
\* iteration tags included: none lost, duplicated or altered by the sort.
C22_ReturnedRawOrder ==
    [][(pc = "aggregate") =>
          /\ NonDecreasing(RawOf(runtimes'))
          /\ SameMultiset(RawOf(runtimes'), runtimes)
          /\ RawOf(results'[Len(results')]) = RawOf(runtimes')
      ]_vars

\* a returned sequence whose raw records are out of iteration order and hold
\* two records of the same duration
C22_Witness ==
    /\ pc = "reset"
    /\ Len(RawOf(runtimes)) = 4
    /\ RawOf(runtimes)[1].iteration = 2
    /\ RawOf(runtimes)[1].time = RawOf(runtimes)[2].time
    /\ RawOf(runtimes)[4].iteration = 0

\* every record of seq carries the verdict NOT_CHECKED
AllNotChecked(seq) == \A i \in DOMAIN seq : seq[i].correctness = "NOT_CHECKED"

\* C23: every record benchmark returns, raw, median and sum, in every trial,
\* carries the verdict NOT_CHECKED, whatever the output buffers hold, and
\* check_result is never invoked: no verdict is computed and no mismatch is
\* logged between the end of a trial's iterations and the return of its
\* records.
C23_VerdictNotChecked ==
    /\ AllNotChecked(runtimes)
    /\ \A k \in DOMAIN results : AllNotChecked(results[k])
    /\ verdict = "none"
    /\ errlog = <<>>
    /\ pc \notin {"check_result", "checked"}

\* benchmark has returned two trials whose output shadow ended non-zero
C23_Witness ==
    /\ BenchmarkReturned
    /\ Len(results) = 2
    /\ host._output_host_buffer # Zeros(args_output)
    /\ mem._output = Zeros(args_output)
    /\ AllNotChecked(results[2])

====
